---- MODULE Spec2Model ----
(***************************************************************************)
(* Client-side Task Store of datadisk's web application                    *)
(* (webapp/src/store/providers.jsx, TaskProvider) together with the two    *)
(* update channels that feed it: the pull query of TaskManager.refreshTasks*)
(* and the WebSocket handler of HomeView.                                  *)
(*                                                                         *)
(* The Transfer Manager (components/uploader/GlobalUploader.jsx) is modelled *)
(* next to it; it shares no state with the Task Store.  The Conflict        *)
(* Resolution Coordinator is the CopyTask card that TaskManager renders    *)
(* for each stored task (components/tasks/CopyTask.jsx); its buttons send  *)
(* the suspend, resume, cancel and delete requests.  The push channel is   *)
(* the WebSocket that HomeView's effect opens.                             *)
(*                                                                         *)
(* A task record is a JavaScript object: it is modelled as a function      *)
(* whose DOMAIN is the set of properties the object carries, so a property *)
(* that a payload omits is absent from the DOMAIN (JavaScript's undefined).*)
(***************************************************************************)
EXTENDS Integers, Sequences, FiniteSets, TLC

VARIABLES
    tasks,      \* TaskProvider's state `tasks`: the visible, ordered collection
    refreshing, \* TaskManager's state `refreshing`
    queries,    \* the pull queries of refreshTasks sent and not yet answered
    ws,         \* HomeView's WebSocket: the one of the mount, or one opened since
    files,              \* GlobalUploader's state `files`: the transfer items
    abortControllers,   \* abortControllersRef.current: ids that have a handle
    requests,           \* upload requests issued and not yet settled
    maxUploadSize,      \* GlobalUploader's state `maxUploadSize`; 0 = unknown
    configFetched,      \* configFetchedRef.current
    panelShow,          \* GlobalUploader's state `panelShow`
    issued,             \* item ids generated so far (an id is never reused)
    fileSuccess,        \* how often bus event fileSuccess was emitted, per item id
    samples,            \* lastLoaded and the age of lastTime of each running uploadFile
    conflictDialogVisible,  \* CopyTask's state, one per mounted card (task id)
    rememberChoice,         \* CopyTask's state, one per mounted card (task id)
    decisions,          \* conflict decisions submitted and not yet answered
    commands            \* suspend/resume/cancel/delete requests not yet answered

storeVars == <<tasks, refreshing, queries, ws>>
cardVars == <<conflictDialogVisible, rememberChoice, decisions, commands>>
uploadVars == <<files, abortControllers, requests, maxUploadSize,
                configFetched, panelShow, issued, fileSuccess, samples>>
vars == <<tasks, refreshing, queries, ws, files, abortControllers, requests, maxUploadSize,
          configFetched, panelShow, issued, fileSuccess, samples,
          conflictDialogVisible, rememberChoice, decisions, commands>>

Has(r, f) == f \in DOMAIN r

\* { ...a, ...b }: object spread, b's properties win, a's others are kept
Spread(a, b) ==
    [f \in (DOMAIN a) \cup (DOMAIN b) |-> IF f \in DOMAIN b THEN b[f] ELSE a[f]]

(***************************************************************************)
(* calcProgress                                                            *)
(***************************************************************************)
\* Math.round(n / d) for d # 0: the nearest integer, a half rounds up
MathRound(n, d) ==
    IF d > 0 THEN (2 * n + d) \div (2 * d)
             ELSE (2 * (0 - n) + (0 - d)) \div (2 * (0 - d))

MathMax(a, b) == IF a >= b THEN a ELSE b
MathMin(a, b) == IF a <= b THEN a ELSE b

\* task.f || 0
OrZero(task, f) == IF Has(task, f) THEN task[f] ELSE 0

\* calcProgress without the clamp to [0, 100]
calcProgress_unclamped(task) ==
    LET totalSize == OrZero(task, "totalSize") IN
    IF totalSize > 0
    THEN MathRound(OrZero(task, "copiedSize") * 100, totalSize)
    ELSE IF Has(task, "totalFiles") /\ task.totalFiles # 0
    THEN MathRound(OrZero(task, "copiedFiles") * 100, task.totalFiles)
    ELSE 0

calcProgress(task) ==
    LET totalSize == OrZero(task, "totalSize") IN
    IF totalSize > 0
    THEN MathMin(100, MathMax(0, MathRound(OrZero(task, "copiedSize") * 100, totalSize)))
    ELSE IF Has(task, "totalFiles") /\ task.totalFiles # 0
    THEN MathMin(100, MathMax(0,
             MathRound(OrZero(task, "copiedFiles") * 100, task.totalFiles)))
    ELSE 0

(***************************************************************************)
(* updateTasks: merge, then sort                                           *)
(***************************************************************************)
\* task.id === newTask.id (undefined === undefined when both omit the id)
SameId(a, b) ==
    /\ Has(a, "id") = Has(b, "id")
    /\ Has(a, "id") => a.id = b.id

\* a findIndex whose predicate never matches
findIndex_never(next, newTask) == 0

\* next.findIndex((task) => task.id === newTask.id); 0 stands for -1
findIndex(next, newTask) ==
    LET hits == {i \in 1..Len(next) : SameId(next[i], newTask)} IN
    IF hits = {} THEN 0 ELSE CHOOSE i \in hits : \A j \in hits : i <= j

\* { ...newTask, progress: calcProgress(newTask) }
Updated(newTask) ==
    Spread(newTask, [progress |-> calcProgress(newTask)])

\* a forEach body that replaces the stored record instead of spreading over it
MergeOne_replace(next, newTask) ==
    LET idx == findIndex(next, newTask)
        updated == Updated(newTask)
    IN  IF idx # 0
        THEN [next EXCEPT ![idx] = updated]
        ELSE Append(next, updated)

\* a forEach body that drops a record older (by updatedAt) than the stored one
MergeOne_newest(next, newTask) ==
    LET idx == findIndex(next, newTask)
        updated == Updated(newTask)
    IN  IF idx # 0
        THEN IF /\ Has(newTask, "updatedAt") /\ Has(next[idx], "updatedAt")
                /\ newTask.updatedAt < next[idx].updatedAt
             THEN next
             ELSE [next EXCEPT ![idx] = Spread(next[idx], updated)]
        ELSE Append(next, updated)

\* the body of newTasks.forEach
MergeOne(next, newTask) ==
    LET idx == findIndex(next, newTask)
        updated == Updated(newTask)
    IN  IF idx # 0
        THEN [next EXCEPT ![idx] = Spread(next[idx], updated)]
        ELSE Append(next, updated)

RECURSIVE forEach(_, _)
forEach(next, newTasks) ==
    IF newTasks = <<>> THEN next
    ELSE forEach(MergeOne(next, Head(newTasks)), Tail(newTasks))

\* statusOrder[status]; 0 stands for undefined (an unknown or missing status)
statusOrder(task) ==
    IF ~Has(task, "status") THEN 0
    ELSE CASE task.status \in {"running", "suspended"} -> 1
           [] task.status = "pending" -> 2
           [] task.status = "starting" -> 3
           [] task.status \in {"completed", "cancelled", "failed"} -> 4
           [] OTHER -> 0

\* a[f] - b[f]: the ascending order
DiffDesc_ascending(a, b, f) ==
    IF Has(a, f) /\ Has(b, f) THEN a[f] - b[f] ELSE 0

\* b[f] - a[f]; a missing operand gives NaN, which sort reads as +0
DiffDesc(a, b, f) ==
    IF Has(a, f) /\ Has(b, f) THEN b[f] - a[f] ELSE 0

\* the comparator handed to sort
compare(a, b) ==
    IF statusOrder(a) # statusOrder(b)
    THEN IF statusOrder(a) = 0 \/ statusOrder(b) = 0
         THEN 0
         ELSE statusOrder(a) - statusOrder(b)
    ELSE IF Has(a, "status") /\ a.status \in {"running", "suspended", "pending"}
         THEN DiffDesc(a, b, "createdAt")
         ELSE DiffDesc(a, b, "updatedAt")

\* an unstable sort: an element goes before the elements it is equal to
Insert_unstable(s, e) ==
    LET before == {i \in 1..Len(s) : compare(e, s[i]) <= 0} IN
    IF before = {} THEN Append(s, e)
    ELSE LET p == CHOOSE i \in before : \A j \in before : i <= j
         IN  SubSeq(s, 1, p - 1) \o <<e>> \o SubSeq(s, p, Len(s))

\* Array.prototype.sort is stable: an element goes before the first element
\* it is strictly less than, after every element it is equal to
Insert(s, e) ==
    LET before == {i \in 1..Len(s) : compare(e, s[i]) < 0} IN
    IF before = {} THEN Append(s, e)
    ELSE LET p == CHOOSE i \in before : \A j \in before : i <= j
         IN  SubSeq(s, 1, p - 1) \o <<e>> \o SubSeq(s, p, Len(s))

RECURSIVE sortInto(_, _)
sortInto(done, rest) ==
    IF rest = <<>> THEN done
    ELSE sortInto(Insert(done, Head(rest)), Tail(rest))

\* an updateTasks that returns next as merged, without sorting it
sort_skipped(s) == s

sort(s) == sortInto(<<>>, s)

\* a merge that takes the batch for the whole list: what it does not name is gone
updateTasks_snapshot(prev, newTasks) == sort(forEach(<<>>, newTasks))

\* setTasks((prev) => { const next = [...prev]; newTasks.forEach(...); return next.sort(...) })
updateTasks(prev, newTasks) == sort(forEach(prev, newTasks))

(***************************************************************************)
(* deleteTask                                                              *)
(***************************************************************************)
\* a filter with the test inverted: it keeps the record it should remove
deleteTask_inverted(prev, taskId) ==
    SelectSeq(prev, LAMBDA task : Has(task, "id") /\ task.id = taskId)

\* prev.filter((task) => task.id !== taskId)
deleteTask(prev, taskId) ==
    SelectSeq(prev, LAMBDA task : ~(Has(task, "id") /\ task.id = taskId))

(***************************************************************************)
(* Payloads.  The server's records reach the store through two channels;   *)
(* the sets below are the records the model lets them carry.  Every record *)
(* carries the keys the comparator reads (status and the timestamps), so   *)
(* the comparator is a consistent one and the result of the stable sort is *)
(* determined; the other properties may be omitted (a partial update).     *)
(***************************************************************************)
MaxSize == 8            \* magnitude of the byte and file counters

Ids == {"t1", "t2"}
Statuses == {"pending", "starting", "running", "suspended",
             "completed", "cancelled", "failed"}
Terminal == {"completed", "cancelled", "failed"}
Times == {1, 2}

Empty == [f \in {} |-> 0]                       \* {}: an object with no property
Only(f, v) == [x \in {f} |-> v]                 \* { f: v }
Optional(f, V) == {Empty} \cup {Only(f, v) : v \in V}

\* records that differ in the keys of the ordering: status and timestamps
KeyRecords ==
    {r \in [id : Ids, status : Statuses, createdAt : Times, updatedAt : Times] :
        r.createdAt <= r.updatedAt}

\* conflictInfo as the server embeds it: a blocking conflict, and a cleared one
SrcFile == [name |-> "a.txt", size |-> 1, modifyTime |-> 1]
DstFile == [name |-> "a.txt", size |-> 2, modifyTime |-> 2]
ConflictBlocked == [needConfirm |-> TRUE, srcFile |-> SrcFile, dstFile |-> DstFile]
ConflictCleared == [needConfirm |-> FALSE]

\* records that differ in the business fields a partial update may omit
FieldRecords(idParts) ==
    {Spread(Spread(Spread(i, [status |-> s, createdAt |-> 100]), c), ci) :
        i \in idParts,
        s \in {"pending", "running"},
        c \in {Empty, [totalSize |-> 1000, copiedSize |-> 250]},
        ci \in Optional("conflictInfo", {ConflictBlocked, ConflictCleared})}

WithIds == {Only("id", i) : i \in Ids}
MaybeNoId == {Only("id", "t1"), Empty}          \* a record may lack its id

\* records of one task that differ in the counters calcProgress reads
Totals == {0 - 1, 0, MaxSize}
Copied == {0 - 1, 1, MaxSize + 1}
ProgressRecords ==
    {Spread(Spread(Spread(Spread([id |-> "t1", status |-> "running", createdAt |-> 1],
                                 ts), cs), tf), cf) :
        ts \in Optional("totalSize", Totals),
        cs \in Optional("copiedSize", Copied),
        tf \in Optional("totalFiles", Totals),
        cf \in Optional("copiedFiles", Copied)}

\* a response of the query carries no, one or two records
Batches(R) ==
    {<<>>} \cup {<<r>> : r \in R} \cup {<<r1, r2>> : r1 \in R, r2 \in R}

KeyBatches == Batches(KeyRecords)
FieldBatches == Batches(FieldRecords(WithIds))
MalformedBatches == Batches(FieldRecords(MaybeNoId))

\* ids a deletion may name: the stored ones and one the store never held
DeleteIds == Ids \cup {"unknown-id"}

(***************************************************************************)
(* Conflict Resolution Coordinator: the CopyTask cards                     *)
(***************************************************************************)
\* the task list is taken as rendered at all times: the coordinator observes
\* every stored task
TaskListRendered == TRUE

\* tasks.map((task) => <CopyTask key={task.id} ... />): the ids that have a
\* card (a record without id has no key and its card is not modelled)
Mounted(s) ==
    IF TaskListRendered
    THEN {s[i].id : i \in {k \in 1..Len(s) : Has(s[k], "id")}}
    ELSE {}

\* the task a card shows
taskOf(s, id) == s[CHOOSE i \in 1..Len(s) : Has(s[i], "id") /\ s[i].id = id]

\* task.conflictInfo?.needConfirm
needConfirm(task) ==
    Has(task, "conflictInfo") /\ task.conflictInfo.needConfirm

\* the ids for which a batch carries a conflictInfo: each is a new object
Delivered(newTasks) ==
    {newTasks[k].id : k \in {m \in 1..Len(newTasks) :
                                Has(newTasks[m], "id") /\ Has(newTasks[m], "conflictInfo")}}

\* an effect without its dependency array: it runs after every render
EffectRuns_always(prev, id, delivered) == TRUE

\* useEffect(..., [task.conflictInfo]): the effect runs when the card mounts
\* and when task.conflictInfo is another object than at the last render
EffectRuns(prev, id, delivered) ==
    id \notin Mounted(prev) \/ id \in delivered

\* one dialog flag for the whole list: a blocked task opens every prompt
Opens_any(prev, next, id, delivered) ==
    \E k \in Mounted(next) :
        EffectRuns(prev, k, delivered) /\ needConfirm(taskOf(next, k))

\* the conflictInfo effect of a card opens its prompt
Opens(prev, next, id, delivered) ==
    EffectRuns(prev, id, delivered) /\ needConfirm(taskOf(next, id))

\* the cards after the render that follows a change of the store from prev to
\* next: a new card starts closed, a removed task's card is gone, and the
\* conflictInfo effect opens the prompt and resets the checkbox
render(visible, remember, prev, next, delivered) ==
    [visible |-> [id \in Mounted(next) |->
                    IF Opens(prev, next, id, delivered) THEN TRUE
                    ELSE IF id \in Mounted(prev) THEN visible[id] ELSE FALSE],
     remember |-> [id \in Mounted(next) |->
                    IF Opens(prev, next, id, delivered) THEN FALSE
                    ELSE IF id \in Mounted(prev) THEN remember[id] ELSE FALSE]]

\* HomeView's WebSocket effect has the dependencies [updateTasks, deleteTask].
\* TaskProvider builds both functions anew in every render and hands them out
\* through a value memoised on [tasks, currentTask], so every setTasks, which
\* always returns a new array, gives HomeView new functions: the effect's
\* cleanup closes the socket and the effect opens another
reconnect(socket) == "reopened"

\* setTasks and the render it causes (no effect runs and no card changes
\* when no conflictInfo arrived and the same tasks are shown)
Commit(next, delivered) ==
    /\ tasks' = next
    /\ ws' = reconnect(ws)
    /\ IF delivered = {} /\ Mounted(next) = DOMAIN conflictDialogVisible
       THEN UNCHANGED <<conflictDialogVisible, rememberChoice>>
       ELSE LET cards == render(conflictDialogVisible, rememberChoice, tasks, next, delivered)
            IN  /\ conflictDialogVisible' = cards.visible
                /\ rememberChoice' = cards.remember

(***************************************************************************)
(* The store and the Update Channel Adapter                                *)
(***************************************************************************)
MaxQueries == 2         \* pull queries in flight at a time

\* useState([]), useState(false)
Init ==
    /\ tasks = <<>>
    /\ refreshing = FALSE
    /\ queries = 0
    /\ ws = "mounted"
    /\ files = <<>>
    /\ abortControllers = {}
    /\ requests = {}
    /\ maxUploadSize = 0
    /\ configFetched = FALSE
    /\ panelShow = FALSE
    /\ issued = {}
    /\ fileSuccess = Empty
    /\ samples = Empty
    /\ conflictDialogVisible = Empty
    /\ rememberChoice = Empty
    /\ decisions = {}
    /\ commands = {}

\* refreshTasks up to its await, for the function of a render in which
\* `refreshing` was seen: if (refreshing) return; setRefreshing(true); the
\* query is sent
refreshTasks(seen) ==
    IF seen
    THEN [refreshing |-> refreshing, queries |-> queries]
    ELSE [refreshing |-> TRUE, queries |-> queries + 1]

\* TaskManager.refreshTasks up to the await, called from the current render
\* (the mount effect, the popover that opens, the refresh button): the query
\* is sent unless `refreshing` is set
RefreshStart ==
    /\ ~refreshing
    /\ queries < MaxQueries
    /\ refreshing' = refreshTasks(refreshing).refreshing
    /\ queries' = refreshTasks(refreshing).queries
    /\ UNCHANGED <<tasks, ws>>
    /\ UNCHANGED <<uploadVars, cardVars>>

\* TaskManager.refreshTasks after the await: the query's response is merged as
\* one batch, whatever the push channel merged while it was in flight
PullResponse(B) ==
    /\ queries > 0
    /\ \E data \in B : Commit(updateTasks(tasks, data), Delivered(data))
    /\ refreshing' = FALSE
    /\ queries' = queries - 1
    /\ UNCHANGED <<uploadVars, decisions, commands>>

\* TaskManager.refreshTasks, the query fails: catch, finally
PullError ==
    /\ queries > 0
    /\ refreshing' = FALSE
    /\ queries' = queries - 1
    /\ UNCHANGED <<tasks, ws>>
    /\ UNCHANGED <<uploadVars, cardVars>>

\* an onmessage that takes every envelope that is no deletion for a task
onmessage_anyType(s, message) ==
    IF message.type = "task_deleted"
    THEN deleteTask(s, message.data)
    ELSE updateTasks(s, <<message.data>>)

\* ws.onmessage: the store after the envelope message
onmessage(s, message) ==
    IF message.type = "task"
    THEN updateTasks(s, <<message.data>>)
    ELSE IF message.type = "task_deleted"
    THEN deleteTask(s, message.data)
    ELSE s

\* HomeView ws.onmessage, message.type === 'task'
PushTask(R) ==
    /\ \E data \in R :
          Commit(onmessage(tasks, [type |-> "task", data |-> data]), Delivered(<<data>>))
    /\ UNCHANGED <<refreshing, queries>>
    /\ UNCHANGED <<uploadVars, decisions, commands>>

\* HomeView ws.onmessage, message.type === 'task_deleted'
PushTaskDeleted ==
    /\ \E id \in DeleteIds :
          Commit(onmessage(tasks, [type |-> "task_deleted", data |-> id]), {})
    /\ UNCHANGED <<refreshing, queries>>
    /\ UNCHANGED <<uploadVars, decisions, commands>>

\* records that differ in status and timestamps
Next ==
    \/ RefreshStart
    \/ PullResponse(KeyBatches)
    \/ PullError
    \/ PushTask(KeyRecords)
    \/ PushTaskDeleted

Spec == Init /\ [][Next]_vars

\* records that differ in counters and conflictInfo, partial updates included
NextFields ==
    \/ RefreshStart
    \/ PullResponse(FieldBatches)
    \/ PullError
    \/ PushTask(FieldRecords(WithIds))
    \/ PushTaskDeleted

SpecFields == Init /\ [][NextFields]_vars

\* records some of which lack the id
NextMalformed ==
    \/ RefreshStart
    \/ PullResponse(MalformedBatches)
    \/ PullError
    \/ PushTask(FieldRecords(MaybeNoId))
    \/ PushTaskDeleted

SpecMalformed == Init /\ [][NextMalformed]_vars

\* one task, every combination of the four counters
NextProgress ==
    \/ PushTask(ProgressRecords)
    \/ PushTaskDeleted

SpecProgress == Init /\ [][NextProgress]_vars

(***************************************************************************)
(* Conflict prompts: the user's and the server's steps                     *)
(***************************************************************************)
MaxDecisions == 2       \* conflict decisions in flight at a time

Policies == {"skip", "rename", "overwrite", "abort"}

\* records of tasks that block on a conflict, go on, or are cancelled
ConflictRecords ==
    {Spread(Spread(i, [status |-> s, createdAt |-> 100, updatedAt |-> 100]), ci) :
        i \in WithIds,
        s \in {"running", "cancelled"},
        ci \in Optional("conflictInfo", {ConflictBlocked, ConflictCleared})}

\* a response of the query lists a task once
ConflictBatches ==
    {b \in Batches(ConflictRecords) : Len(b) = 2 => b[1].id # b[2].id}

\* the checkbox of an open prompt (rendered while the task has a conflictInfo)
ToggleRemember ==
    \E id \in DOMAIN conflictDialogVisible :
        /\ conflictDialogVisible[id]
        /\ Has(taskOf(tasks, id), "conflictInfo")
        /\ rememberChoice' = [rememberChoice EXCEPT ![id] = ~rememberChoice[id]]
        /\ UNCHANGED <<conflictDialogVisible, decisions, commands>>
        /\ UNCHANGED <<storeVars, uploadVars>>

\* Dialog onOpenChange(false): the user closes the prompt without deciding
DismissPrompt ==
    \E id \in DOMAIN conflictDialogVisible :
        /\ conflictDialogVisible[id]
        /\ conflictDialogVisible' = [conflictDialogVisible EXCEPT ![id] = FALSE]
        /\ UNCHANGED <<rememberChoice, decisions, commands>>
        /\ UNCHANGED <<storeVars, uploadVars>>

\* a handleConflict that closes the prompt before it sends the decision
submitted_optimistic(visible, id) == [visible EXCEPT ![id] = FALSE]

\* handleConflict up to its await: the prompt stays as it is while the
\* decision is on its way
submitted(visible, id) == visible

\* a body that names the task at the head of the list, whichever card asks
body_listHead(task, policy, remember) ==
    [taskId |-> tasks[1].id, policy |-> policy, remember |-> remember]

\* the body of the decision request: the id of the card's own task, the
\* policy of the button and the card's rememberChoice
body(task, policy, remember) ==
    [taskId |-> task.id, policy |-> policy, remember |-> remember]

\* handleConflict(policy) up to its await: a button of an open prompt.
\* waits: the user waits for the answer before choosing again
HandleConflict(waits) ==
    \E id \in DOMAIN conflictDialogVisible, policy \in Policies :
        /\ conflictDialogVisible[id]
        /\ waits => decisions = {}
        /\ Cardinality(decisions) < MaxDecisions
        /\ decisions' = decisions \cup
               {body(taskOf(tasks, id), policy, rememberChoice[id])}
        /\ conflictDialogVisible' = submitted(conflictDialogVisible, id)
        /\ UNCHANGED <<rememberChoice, commands>>
        /\ UNCHANGED <<storeVars, uploadVars>>

\* a handleConflict that leaves the prompt open when the server accepts
accepted_keepOpen(visible, id) == visible

\* handleConflict after the await: setConflictDialogVisible(false) (nothing
\* for a card that is gone)
accepted(visible, id) ==
    IF id \in DOMAIN visible THEN [visible EXCEPT ![id] = FALSE] ELSE visible

\* onTaskUpdated?.() after the await of a handler of a card: the refreshTasks
\* of the render in which the button was clicked, so its test reads the
\* `refreshing` of that render (seen), which is left open. quiet: the answer
\* comes while no query is in flight
OnTaskUpdated(quiet) ==
    \E seen \in BOOLEAN :
        /\ ~seen => IF quiet THEN queries = 0 ELSE queries < MaxQueries
        /\ refreshing' = refreshTasks(seen).refreshing
        /\ queries' = refreshTasks(seen).queries

\* handleConflict after the await: the server accepted the decision;
\* setConflictDialogVisible(false), then onTaskUpdated
ConflictAccepted(quiet) ==
    \E d \in decisions :
        /\ decisions' = decisions \ {d}
        /\ conflictDialogVisible' = accepted(conflictDialogVisible, d.taskId)
        /\ OnTaskUpdated(quiet)
        /\ UNCHANGED <<tasks, ws, rememberChoice, commands>>
        /\ UNCHANGED uploadVars

\* handleConflict, catch: the submission failed; alertError
ConflictFailed ==
    \E d \in decisions :
        /\ decisions' = decisions \ {d}
        /\ UNCHANGED <<conflictDialogVisible, rememberChoice, commands>>
        /\ UNCHANGED <<storeVars, uploadVars>>

NextConflict ==
    \/ RefreshStart
    \/ PullResponse(ConflictBatches)
    \/ PullError
    \/ PushTask(ConflictRecords)
    \/ PushTaskDeleted
    \/ ToggleRemember
    \/ DismissPrompt
    \/ HandleConflict(TRUE)
    \/ ConflictAccepted(TRUE)
    \/ ConflictFailed

SpecConflict == Init /\ [][NextConflict]_vars

\* the user does not wait: the buttons of a prompt stay enabled while a
\* decision is on its way. Running tasks that block on a conflict or go on
DecisionRecords == {r \in ConflictRecords : r.status = "running"}

DecisionBatches == {b \in Batches(DecisionRecords) : Len(b) <= 1}

NextDecisions ==
    \/ RefreshStart
    \/ PullResponse(DecisionBatches)
    \/ PullError
    \/ PushTask(DecisionRecords)
    \/ ToggleRemember
    \/ DismissPrompt
    \/ HandleConflict(FALSE)
    \/ ConflictAccepted(TRUE)
    \/ ConflictFailed

SpecDecisions == Init /\ [][NextDecisions]_vars

(***************************************************************************)
(* Task commands: the buttons of a CopyTask card                           *)
(***************************************************************************)
MaxCommands == 1        \* requests of the cards in flight at a time

TaskOps == {"suspend", "resume", "cancel", "delete"}

\* records of tasks the user suspends, resumes and cancels; t1 may block on a
\* conflict
CommandRecords ==
    {r \in {Spread(Spread(i, [status |-> s, createdAt |-> 100, updatedAt |-> 100]), ci) :
                i \in WithIds,
                s \in {"pending", "running", "suspended", "cancelled"},
                ci \in Optional("conflictInfo", {ConflictBlocked})} :
        Has(r, "conflictInfo") => r.id = "t1"}

\* a response of the query with no or one record
CommandBatches == {b \in Batches(CommandRecords) : Len(b) <= 1}

\* a card that renders its four buttons whatever the status
buttons_all(status) == TaskOps

\* the buttons a card renders for a status
buttons(status) ==
    (IF status = "running" THEN {"suspend"} ELSE {})
    \cup (IF status = "suspended" THEN {"resume"} ELSE {})
    \cup (IF status \in {"running", "suspended", "starting", "pending"}
          THEN {"cancel"} ELSE {})
    \cup (IF status \in Terminal THEN {"delete"} ELSE {})

\* the status a command asks the server for
asked(op) ==
    CASE op = "suspend" -> "suspended"
      [] op = "resume" -> "running"
      [] op = "cancel" -> "cancelled"
      [] OTHER -> "deleted"

\* a handler that writes the status it asks for into the store at once
request_optimistic(s, id, op) ==
    [i \in 1..Len(s) |->
        IF Has(s[i], "id") /\ s[i].id = id
        THEN Spread(s[i], [status |-> asked(op)])
        ELSE s[i]]

\* pauseTask / resumeTask / cancelTask / deleteTask up to the await: an
\* http request and nothing else; the store is not written
request(s, id, op) == s

\* a button of the card of task id: the request is on its way
Request(id, op) ==
    /\ Has(taskOf(tasks, id), "status")
    /\ op \in buttons(taskOf(tasks, id).status)
    /\ Cardinality(commands) < MaxCommands
    /\ commands' = commands \cup {[taskId |-> id, op |-> op]}
    /\ tasks' = request(tasks, id, op)
    /\ UNCHANGED <<refreshing, queries, ws, conflictDialogVisible, rememberChoice, decisions>>
    /\ UNCHANGED uploadVars

PauseTask == \E id \in Mounted(tasks) : Request(id, "suspend")

ResumeTask == \E id \in Mounted(tasks) : Request(id, "resume")

CancelTask == \E id \in Mounted(tasks) : Request(id, "cancel")

\* CopyTask.deleteTask, the button of a finished task
DeleteTask == \E id \in Mounted(tasks) : Request(id, "delete")

\* pauseTask / resumeTask / cancelTask after the await: the server accepted;
\* onTaskUpdated
CommandSucceeded(quiet) ==
    \E c \in commands :
        /\ c.op # "delete"
        /\ commands' = commands \ {c}
        /\ OnTaskUpdated(quiet)
        /\ UNCHANGED <<tasks, ws, conflictDialogVisible, rememberChoice, decisions>>
        /\ UNCHANGED uploadVars

\* deleteTask after the await: the server deleted the task;
\* onTaskDeleted(taskId) is the store's deleteTask
DeleteSucceeded ==
    \E c \in commands :
        /\ c.op = "delete"
        /\ commands' = commands \ {c}
        /\ Commit(deleteTask(tasks, c.taskId), {})
        /\ UNCHANGED <<refreshing, queries, decisions>>
        /\ UNCHANGED uploadVars

\* a catch that takes the failed request for done and drops the task
rejected_removes(s, c) ==
    [tasks |-> deleteTask(s, c.taskId), alert |-> "error"]

\* catch of the four handlers: console.error, alertError and nothing else;
\* no setter of the store is called
rejected(s, c) == [tasks |-> s, alert |-> "error"]

\* the request of a card fails: the catch of its handler
CommandFailed ==
    \E c \in commands :
        /\ commands' = commands \ {c}
        /\ tasks' = rejected(tasks, c).tasks
        /\ UNCHANGED <<refreshing, queries, ws>>
        /\ UNCHANGED <<conflictDialogVisible, rememberChoice, decisions>>
        /\ UNCHANGED uploadVars

NextCommands ==
    \/ RefreshStart
    \/ PullResponse(CommandBatches)
    \/ PullError
    \/ PushTask(CommandRecords)
    \/ PushTaskDeleted
    \/ PauseTask
    \/ ResumeTask
    \/ CancelTask
    \/ DeleteTask
    \/ CommandSucceeded(TRUE)
    \/ DeleteSucceeded
    \/ CommandFailed
    \/ HandleConflict(TRUE)
    \/ ConflictAccepted(TRUE)
    \/ ConflictFailed

SpecCommands == Init /\ [][NextCommands]_vars

\* the answer to a request of a card may come while a query is in flight
NextRefresh ==
    \/ RefreshStart
    \/ PullResponse(CommandBatches)
    \/ PullError
    \/ PushTask(CommandRecords)
    \/ PauseTask
    \/ ResumeTask
    \/ CancelTask
    \/ CommandSucceeded(FALSE)
    \/ CommandFailed

SpecRefresh == Init /\ [][NextRefresh]_vars

(***************************************************************************)
(* The two update channels side by side                                    *)
(***************************************************************************)
\* records of either channel: the same task reported with an older or a newer
\* updatedAt, running or completed, with or without its file counter
ChannelRecords ==
    {Spread([id |-> i, status |-> s, createdAt |-> 1, updatedAt |-> u], c) :
        i \in Ids,
        s \in {"running", "completed"},
        u \in Times,
        c \in Optional("copiedFiles", {1, 2})}

ChannelBatches == Batches(ChannelRecords)

\* the envelopes the push channel may carry: a task, a deletion, and
\* envelopes of a type the handler has no branch for
TaskEnvelopes == {[type |-> "task", data |-> r] : r \in ChannelRecords}
DeletedEnvelopes == {[type |-> "task_deleted", data |-> id] : id \in DeleteIds}
OtherEnvelopes == {[type |-> "notice", data |-> r] : r \in ChannelRecords}

\* HomeView ws.onmessage, an envelope of another type: no branch is taken
\* and no setter is called
PushOther ==
    /\ \E message \in OtherEnvelopes : tasks' = onmessage(tasks, message)
    /\ UNCHANGED <<refreshing, queries, ws>>
    /\ UNCHANGED <<uploadVars, cardVars>>

NextChannels ==
    \/ RefreshStart
    \/ PullResponse(ChannelBatches)
    \/ PullError
    \/ PushTask(ChannelRecords)
    \/ PushTaskDeleted
    \/ PushOther

SpecChannels == Init /\ [][NextChannels]_vars

(***************************************************************************)
(* Transfer Manager: GlobalUploader                                        *)
(***************************************************************************)
MaxUpload == 2          \* the upload limit the configuration reports, in size units
MaxElapsed == 3         \* quarter seconds between two samples of the speed, at most

FileIds == {"f1", "f2"}
FileSizes == {MaxUpload - 1, MaxUpload, MaxUpload + 1}
Percents == {0, 50, 100}

\* the file lists a selection may carry: no, one or two files, by size
FileLists ==
    {<<>>} \cup {<<z>> : z \in FileSizes} \cup {<<y, z>> : y \in FileSizes, z \in FileSizes}

\* what a failed upload request is rejected with: the response's status (0: no
\* response), the message of its body ("": none) and the error's code ("":
\* none). A response of status 200 is a business error (code === false in its
\* body), which the interceptor turns into an Error without a code.
UploadErrors ==
    {e \in [status : {0, 200, 401, 413, 500}, message : {"", "server message"},
            code : {"", "ERR_NETWORK", "ERR_BAD_RESPONSE"}] :
        /\ e.status = 0 => e.message = "" /\ e.code # "ERR_BAD_RESPONSE"
        /\ e.status = 200 => e.code = ""
        /\ e.status \in {401, 413, 500} => e.code = "ERR_BAD_RESPONSE"}

\* the response interceptor of http, for a request that failed: a response of
\* status 401 sends the browser to the login page, and the error is passed on
\* to the caller in every case
interceptor(error) ==
    [redirect |-> error.status = 401, rejects |-> TRUE]

\* a catch that tells the server's message only for status 413
errorMessageOf_statusOnly(error) ==
    IF error.status = 413
    THEN IF error.message # "" THEN error.message ELSE "payload too large"
    ELSE IF error.code = "ERR_NETWORK" THEN "network failure"
    ELSE "upload failed"

\* the errorMessage the catch block of uploadFile derives from an error
errorMessageOf(error) ==
    IF error.status = 413
    THEN IF error.message # "" THEN error.message ELSE "payload too large"
    ELSE IF error.status # 0 /\ error.message # "" THEN error.message
    ELSE IF error.code = "ERR_NETWORK" THEN "network failure"
    ELSE "upload failed"

\* prev.map((item) => item.id === id ? { ...item, ...patch } : item)
mapItem(prev, id, patch) ==
    [i \in 1..Len(prev) |-> IF prev[i].id = id THEN Spread(prev[i], patch) ELSE prev[i]]

\* the item addFiles builds for a file, with a limit check that rejects a
\* file of exactly the maximum size as well
newItem_inclusive(id, size) ==
    LET exceedsLimit == maxUploadSize > 0 /\ size >= maxUploadSize IN
    [id |-> id, size |-> size, progress |-> 0,
     status |-> IF exceedsLimit THEN "rejected" ELSE "waiting",
     errorMessage |-> IF exceedsLimit THEN "exceeds the limit" ELSE ""]

\* the item addFiles builds for a file
newItem(id, size) ==
    LET exceedsLimit == maxUploadSize > 0 /\ size > maxUploadSize IN
    [id |-> id, size |-> size, progress |-> 0,
     status |-> IF exceedsLimit THEN "rejected" ELSE "waiting",
     errorMessage |-> IF exceedsLimit THEN "exceeds the limit" ELSE ""]

\* the ids of the items a sequence holds
ItemIds(s) == {s[i].id : i \in 1..Len(s)}

\* the part of GlobalUploader's state that uploadFile, cancelFile and close
\* read and write
Uploader == [files |-> files, abortControllers |-> abortControllers, requests |-> requests]

\* an addFiles that emits fileAdded for every item, the rejected ones included
emitted_all(incoming) ==
    [k \in 1..Len(incoming) |-> incoming[k].id]

\* incoming.filter((f) => f.status !== 'rejected'): the items fileAdded is
\* emitted for, in order
emitted(incoming) ==
    LET kept == SelectSeq(incoming, LAMBDA f : f.status # "rejected")
    IN  [k \in 1..Len(kept) |-> kept[k].id]

\* an uploadFile that issues the request and registers no cancellation handle
uploadFile_noHandle(u, id) ==
    [files |-> mapItem(u.files, id, [status |-> "uploading", errorMessage |-> "", speed |-> 0]),
     abortControllers |-> u.abortControllers,
     requests |-> u.requests \cup {[id |-> id, aborted |-> FALSE]}]

\* uploadFile up to its await: the handle is registered, the item is set to
\* uploading, the request is issued
uploadFile(u, id) ==
    [files |-> mapItem(u.files, id, [status |-> "uploading", errorMessage |-> "", speed |-> 0]),
     abortControllers |-> u.abortControllers \cup {id},
     requests |-> u.requests \cup {[id |-> id, aborted |-> FALSE]}]

\* the fileAdded listener of the mounted view calls file.resume() for each
\* emitted item
RECURSIVE resumeAll(_, _)
resumeAll(u, ids) ==
    IF ids = <<>> THEN u
    ELSE resumeAll(uploadFile(u, Head(ids)), Tail(ids))

\* controller.abort() of the handles hs: the request of each, if it has not
\* settled, is aborted
abortAll(rs, hs) ==
    {IF r.id \in hs THEN [r EXCEPT !.aborted = TRUE] ELSE r : r \in rs}

\* a cancelFile that removes the item and its handle and leaves the request
\* running
cancelFile_noAbort(u, id) ==
    [files |-> SelectSeq(u.files, LAMBDA file : file.id # id),
     abortControllers |-> u.abortControllers \ {id},
     requests |-> u.requests]

\* cancelFile(id)
cancelFile(u, id) ==
    [files |-> SelectSeq(u.files, LAMBDA file : file.id # id),
     abortControllers |-> u.abortControllers \ {id},
     requests |-> abortAll(u.requests, u.abortControllers \cap {id})]

\* close
close(u) ==
    [files |-> <<>>,
     abortControllers |-> {},
     requests |-> abortAll(u.requests, u.abortControllers)]

\* a catch that puts the item back in line for another attempt
catch_retry(u, id, error) ==
    [files |-> mapItem(u.files, id, [status |-> "waiting", errorMessage |-> ""]),
     abortControllers |-> u.abortControllers \ {id},
     requests |-> u.requests \ {[id |-> id, aborted |-> FALSE]}]

\* uploadFile, catch, for an error that is not a cancellation: the handle is
\* dropped and the item is set to error with the message derived from the
\* error
catch(u, id, error) ==
    [files |-> mapItem(u.files, id,
                       [status |-> "error", errorMessage |-> errorMessageOf(error)]),
     abortControllers |-> u.abortControllers \ {id},
     requests |-> u.requests \ {[id |-> id, aborted |-> FALSE]}]

\* let lastLoaded = 0; let lastTime = Date.now(): the closure of an
\* uploadFile call
newSample == [lastLoaded |-> 0, elapsed |-> 0]

\* the closures of the uploadFile calls whose requests rs have not settled
track(sm, rs) ==
    [id \in {r.id : r \in rs} |-> IF id \in DOMAIN sm THEN sm[id] ELSE newSample]

\* openUploader -> fetchConfig: the config is asked for until a response has
\* carried a maximum upload size; a response without one, or a failure,
\* leaves the maximum unknown
FetchConfig ==
    /\ ~configFetched
    /\ \E known \in BOOLEAN :
          IF known
          THEN maxUploadSize' = MaxUpload /\ configFetched' = TRUE
          ELSE UNCHANGED <<maxUploadSize, configFetched>>
    /\ UNCHANGED <<files, abortControllers, requests, panelShow, issued, fileSuccess, samples>>
    /\ UNCHANGED <<storeVars, cardVars>>

\* addFiles, with the fileAdded listener of the mounted view, if one is
\* mounted (listening): file.resume() runs uploadFile up to its await
AddFiles(Lists) ==
    \E fileList \in Lists, ids \in [1..2 -> FileIds \ issued], listening \in BOOLEAN :
        LET n == Len(fileList)
            incoming == [k \in 1..n |-> newItem(ids[k], fileList[k])]
            added == [files |-> files \o incoming,
                      abortControllers |-> abortControllers,
                      requests |-> requests]
            u == IF listening THEN resumeAll(added, emitted(incoming)) ELSE added
        IN  /\ n > 0
            /\ \A k \in 1..n : \A m \in 1..n : ids[k] = ids[m] => k = m
            /\ issued' = issued \cup {ids[k] : k \in 1..n}
            /\ files' = u.files
            /\ abortControllers' = u.abortControllers
            /\ requests' = u.requests
            /\ panelShow' = TRUE
            /\ samples' = track(samples, u.requests)
            /\ UNCHANGED <<maxUploadSize, configFetched, fileSuccess>>
            /\ UNCHANGED <<storeVars, cardVars>>

\* the progress events of a request whose body has two size units: nothing,
\* half or all of it is sent, or the total is not known (0)
UploadEvents ==
    {e \in [loaded : 0..2, total : {0, 2}] : e.total = 0 => e.loaded = 0}

\* bytesDiff / timeDiff, in size units per three seconds for a timeDiff in
\* quarter seconds: every quotient of the values drawn is a whole number
speedOf(bytesDiff, timeDiff) == (bytesDiff * 12) \div timeDiff

\* uploadFile's onUploadProgress for the event (loaded, total), with sample
\* the closure's lastLoaded and the age of its lastTime (now - lastTime, in
\* quarter seconds): the files and the closure after the callback
onUploadProgress(prev, sample, id, event) ==
    IF event.total = 0 THEN [files |-> prev, sample |-> sample]
    ELSE
        LET timeDiff == sample.elapsed
            percent == MathRound(event.loaded * 100, event.total)
            due == timeDiff >= 2
            speed == IF due THEN speedOf(event.loaded - sample.lastLoaded, timeDiff)
                     ELSE 0
        IN  [files |-> [i \in 1..Len(prev) |->
                          IF prev[i].id # id THEN prev[i]
                          ELSE Spread(prev[i],
                                      [progress |-> percent,
                                       speed |-> IF speed > 0 THEN speed
                                                 ELSE prev[i].speed])],
             sample |-> IF due THEN [lastLoaded |-> event.loaded, elapsed |-> 0]
                        ELSE sample]

\* uploadFile, onUploadProgress: a progress event of a request (the bytes
\* sent do not decrease)
OnUploadProgress(Events) ==
    \E r \in requests, event \in Events :
        /\ event.loaded >= samples[r.id].lastLoaded
        /\ LET after == onUploadProgress(files, samples[r.id], r.id, event)
           IN  /\ files' = after.files
               /\ samples' = [samples EXCEPT ![r.id] = after.sample]
        /\ UNCHANGED <<abortControllers, requests, maxUploadSize, configFetched,
                       panelShow, issued, fileSuccess>>
        /\ UNCHANGED <<storeVars, cardVars>>

\* Date.now() moves on by a quarter of a second
Tick ==
    /\ DOMAIN samples # {}
    /\ \A id \in DOMAIN samples : samples[id].elapsed < MaxElapsed
    /\ samples' = [id \in DOMAIN samples |->
                      [samples[id] EXCEPT !.elapsed = @ + 1]]
    /\ UNCHANGED <<files, abortControllers, requests, maxUploadSize, configFetched,
                   panelShow, issued, fileSuccess>>
    /\ UNCHANGED <<storeVars, cardVars>>

\* an uploadFile that emits fileSuccess twice
emit_twice(counts, id) == Spread(counts, Only(id, OrZero(counts, id) + 2))

\* bus.emit('fileSuccess', fileWrapper): one more emission for the item id
emit(counts, id) == Spread(counts, Only(id, OrZero(counts, id) + 1))

\* uploadFile after the await: the request succeeded
UploadSucceeded ==
    \E r \in requests :
        /\ ~r.aborted
        /\ requests' = requests \ {r}
        /\ abortControllers' = abortControllers \ {r.id}
        /\ files' = mapItem(files, r.id, [status |-> "success", progress |-> 100])
        /\ fileSuccess' = emit(fileSuccess, r.id)
        /\ samples' = track(samples, requests \ {r})
        /\ UNCHANGED <<maxUploadSize, configFetched, panelShow, issued>>
        /\ UNCHANGED <<storeVars, cardVars>>

\* uploadFile, catch: the request failed
UploadFailed ==
    \E r \in requests, error \in UploadErrors :
        /\ ~r.aborted
        /\ interceptor(error).rejects
        /\ LET u == catch(Uploader, r.id, error)
           IN  /\ files' = u.files
               /\ abortControllers' = u.abortControllers
               /\ requests' = u.requests
               /\ samples' = track(samples, u.requests)
        /\ UNCHANGED <<maxUploadSize, configFetched, panelShow, issued, fileSuccess>>
        /\ UNCHANGED <<storeVars, cardVars>>

\* uploadFile, catch: the request was aborted (CanceledError): return
UploadCanceled ==
    \E r \in requests :
        /\ r.aborted
        /\ requests' = requests \ {r}
        /\ abortControllers' = abortControllers \ {r.id}
        /\ samples' = track(samples, requests \ {r})
        /\ UNCHANGED <<files, maxUploadSize, configFetched, panelShow, issued, fileSuccess>>
        /\ UNCHANGED <<storeVars, cardVars>>

\* the cancel button of an item, shown while it is uploading or waiting
CancelFile ==
    \E i \in 1..Len(files) :
        /\ panelShow
        /\ files[i].status \in {"uploading", "waiting"}
        /\ LET u == cancelFile(Uploader, files[i].id)
           IN  /\ files' = u.files
               /\ abortControllers' = u.abortControllers
               /\ requests' = u.requests
        /\ UNCHANGED <<maxUploadSize, configFetched, panelShow, issued, fileSuccess, samples>>
        /\ UNCHANGED <<storeVars, cardVars>>

\* the close button of the panel: close
Close ==
    /\ panelShow
    /\ LET u == close(Uploader)
       IN  /\ files' = u.files
           /\ abortControllers' = u.abortControllers
           /\ requests' = u.requests
    /\ panelShow' = FALSE
    /\ UNCHANGED <<maxUploadSize, configFetched, issued, fileSuccess, samples>>
    /\ UNCHANGED <<storeVars, cardVars>>

\* closePanel(logout): bus event closeUploadPanel (HomeView.logout sends true)
ClosePanel ==
    \E logout \in BOOLEAN :
        /\ files' = IF logout THEN <<>> ELSE files
        /\ panelShow' = FALSE
        /\ UNCHANGED <<abortControllers, requests, maxUploadSize, configFetched, issued, fileSuccess, samples>>
        /\ UNCHANGED <<storeVars, cardVars>>

\* openPanel: bus event openUploadPanel
OpenPanel ==
    /\ panelShow' = TRUE
    /\ UNCHANGED <<files, abortControllers, requests, maxUploadSize, configFetched, issued, fileSuccess, samples>>
    /\ UNCHANGED <<storeVars, cardVars>>

NextUpload ==
    \/ FetchConfig
    \/ AddFiles(FileLists)
    \/ OnUploadProgress(UploadEvents)
    \/ UploadSucceeded
    \/ UploadFailed
    \/ UploadCanceled
    \/ CancelFile
    \/ Close
    \/ ClosePanel
    \/ OpenPanel

SpecUpload == Init /\ [][NextUpload]_vars

\* the speed of an upload: time passes between the progress events of the
\* uploads of files of one size
SpeedLists == {<<MaxUpload>>}

SpeedEvents == UploadEvents

NextSpeed ==
    \/ AddFiles(SpeedLists)
    \/ Tick
    \/ OnUploadProgress(SpeedEvents)
    \/ UploadSucceeded
    \/ UploadFailed

SpecSpeed == Init /\ [][NextSpeed]_vars

(***************************************************************************)
(* Properties                                                              *)
(***************************************************************************)
Active == {"running", "suspended"}

IdsOf(s) == {s[i].id : i \in 1..Len(s)}
Pos(s, id) == CHOOSE i \in 1..Len(s) : s[i].id = id
Stored(s, id) == s[Pos(s, id)]

\* C1: whatever merges came before, applying the batch merged last a second
\* time leaves the collection identical: same records, same field values
\* (progress included), same order.
C1_MergeIdempotent ==
    \A b \in FieldBatches :
        LET once == updateTasks(tasks, b) IN updateTasks(once, b) = once

\* a store that is the merge of a two-record batch, with two tasks whose sort
\* keys tie and a progress that is not 0, and which that batch leaves as it is
C1_Witness ==
    \E b \in FieldBatches :
        /\ Len(b) = 2 /\ b[1].id # b[2].id
        /\ tasks = updateTasks(<<>>, b)
        /\ compare(tasks[1], tasks[2]) = 0
        /\ tasks[1].progress = 25
        /\ updateTasks(tasks, b) = tasks

\* C2: every stored progress is an integer in [0, 100]; merging a record with
\* copiedSize > totalSize > 0 stores progress 100, and merging a record with
\* neither a positive totalSize nor a non-zero totalFiles stores progress 0.
C2_ProgressInRange ==
    /\ \A i \in 1..Len(tasks) : tasks[i].progress \in 0..100
    /\ \A r \in ProgressRecords :
        LET p == Stored(updateTasks(tasks, <<r>>), r.id).progress IN
        /\ p \in 0..100
        /\ (/\ Has(r, "totalSize") /\ Has(r, "copiedSize")
            /\ r.totalSize > 0 /\ r.copiedSize > r.totalSize) => p = 100
        /\ (/\ ~(Has(r, "totalSize") /\ r.totalSize > 0)
            /\ ~(Has(r, "totalFiles") /\ r.totalFiles # 0)) => p = 0

\* a stored task whose copiedSize exceeds its totalSize, at progress 100
C2_Witness ==
    \E i \in 1..Len(tasks) :
        /\ Has(tasks[i], "totalSize") /\ Has(tasks[i], "copiedSize")
        /\ tasks[i].totalSize > 0
        /\ tasks[i].copiedSize > tasks[i].totalSize
        /\ ~Has(tasks[i], "totalFiles")
        /\ tasks[i].progress = 100

\* C3: once a stored task has status completed, cancelled or failed, no later
\* merge gives it a status that is not terminal.
C3_TerminalStaysTerminal ==
    [][\A i \in 1..Len(tasks) : \A j \in 1..Len(tasks') :
          (tasks[i].status \in Terminal /\ tasks'[j].id = tasks[i].id)
              => tasks'[j].status \in Terminal]_vars

\* the progress rule of the data model, applied to a record's own fields
ProgressRule(rec) ==
    LET ratio(n, d) == MathMin(100, MathMax(0, MathRound(100 * n, d))) IN
    IF Has(rec, "totalSize") /\ rec.totalSize > 0
    THEN ratio(OrZero(rec, "copiedSize"), rec.totalSize)
    ELSE IF Has(rec, "totalFiles") /\ rec.totalFiles # 0
    THEN ratio(OrZero(rec, "copiedFiles"), rec.totalFiles)
    ELSE 0

\* C4: after every merge each stored task's progress is the progress rule
\* applied to that stored record's own counters, also after a partial update
\* that omits the counters.
C4_ProgressMatchesRecord ==
    \A i \in 1..Len(tasks) : tasks[i].progress = ProgressRule(tasks[i])

\* C5: no two stored records share an id; a batch adds one record for each id
\* it carries that the store lacks and none for an id the store has (also when
\* an id occurs twice in the batch), and the stored record of each id takes
\* the status of the batch's last record for that id.
C5_UniqueIds ==
    /\ \A i, j \in 1..Len(tasks) : tasks[i].id = tasks[j].id => i = j
    /\ \A b \in FieldBatches :
        LET s == updateTasks(tasks, b)
            new == {b[k].id : k \in 1..Len(b)} \ IdsOf(tasks)
        IN  /\ Len(s) = Len(tasks) + Cardinality(new)
            /\ \A k \in 1..Len(b) :
                 (\A m \in 1..Len(b) : b[m].id = b[k].id => m <= k)
                     => Stored(s, b[k].id).status = b[k].status

\* the scenario: t1 merged as pending and then as running with totalSize 1000
\* and copiedSize 250 is the one stored task, running, at progress 25
C5_Witness ==
    /\ Len(tasks) = 1
    /\ tasks[1].id = "t1"
    /\ tasks[1].status = "running"
    /\ tasks[1].createdAt = 100
    /\ Has(tasks[1], "totalSize") /\ tasks[1].totalSize = 1000
    /\ tasks[1].copiedSize = 250
    /\ tasks[1].progress = 25

\* C6: merging a record whose id is stored gives every property the record
\* carries the incoming value as a whole (conflictInfo is replaced, not
\* merged), keeps every business property the record omits, and leaves the
\* records of the other ids as they were.
C6_FieldLevelReplace ==
    \A r \in FieldRecords(WithIds) :
        r.id \in IdsOf(tasks) =>
            LET s == updateTasks(tasks, <<r>>)
                old == Stored(tasks, r.id)
                new == Stored(s, r.id)
            IN  /\ DOMAIN new = DOMAIN old \cup DOMAIN r
                /\ \A f \in DOMAIN r : new[f] = r[f]
                /\ \A f \in DOMAIN old \ (DOMAIN r \cup {"progress"}) : new[f] = old[f]
                /\ IdsOf(s) = IdsOf(tasks)
                /\ \A id \in IdsOf(tasks) \ {r.id} : Stored(s, id) = Stored(tasks, id)

\* two stored tasks, one of which carries the cleared conflictInfo as a whole
\* and counters that outlived an update that omitted them (its progress is
\* that of the update, 0)
C6_Witness ==
    \E i \in 1..Len(tasks) :
        /\ Has(tasks[i], "conflictInfo")
        /\ tasks[i].conflictInfo = ConflictCleared
        /\ Has(tasks[i], "totalSize") /\ tasks[i].totalSize = 1000
        /\ tasks[i].progress = 0
        /\ Len(tasks) = 2

\* C7: a record without an id is dropped by merge: it is never stored.
C7_NoRecordWithoutId ==
    \A i \in 1..Len(tasks) : Has(tasks[i], "id")

\* C8: delete(id) removes the record with that id and nothing else, keeping
\* the order of the others; for an id the store does not hold it leaves the
\* collection unchanged.
C8_DeleteOnlyThatId ==
    \A id \in DeleteIds :
        LET s == deleteTask(tasks, id) IN
        IF id \in IdsOf(tasks)
        THEN LET p == Pos(tasks, id) IN
             s = SubSeq(tasks, 1, p - 1) \o SubSeq(tasks, p + 1, Len(tasks))
        ELSE s = tasks

\* a store of two tasks from which deleting the first leaves the second, and
\* deleting an id it does not hold leaves both
C8_Witness ==
    /\ Len(tasks) = 2
    /\ deleteTask(tasks, tasks[1].id) = <<tasks[2]>>
    /\ "unknown-id" \notin IdsOf(tasks)
    /\ deleteTask(tasks, "unknown-id") = tasks

SortKeys(rec) == <<rec.status, rec.createdAt, rec.updatedAt>>

\* C9: the ordering is stable: two tasks whose sort keys compare equal after a
\* step are in the relative order they had before it, and a step that changes
\* no task's status, createdAt or updatedAt keeps the order of all the tasks.
C9_StableOrder ==
    [][/\ \A i, j \in 1..Len(tasks) :
            (/\ i < j
             /\ tasks[i].id \in IdsOf(tasks') /\ tasks[j].id \in IdsOf(tasks')
             /\ compare(Stored(tasks', tasks[i].id), Stored(tasks', tasks[j].id)) = 0)
                => Pos(tasks', tasks[i].id) < Pos(tasks', tasks[j].id)
       /\ (\A i \in 1..Len(tasks) :
               /\ tasks[i].id \in IdsOf(tasks')
               /\ SortKeys(Stored(tasks', tasks[i].id)) = SortKeys(tasks[i]))
            => \A i, j \in 1..Len(tasks) :
                 i < j => Pos(tasks', tasks[i].id) < Pos(tasks', tasks[j].id)
      ]_vars

\* two stored tasks whose keys compare equal, t2 ahead of t1: the order in
\* which they arrived, kept by the sort
C9_Witness ==
    /\ Len(tasks) = 2
    /\ tasks[1].id = "t2" /\ tasks[2].id = "t1"
    /\ tasks[1].status = "completed" /\ tasks[2].status = "failed"
    /\ compare(tasks[1], tasks[2]) = 0

\* C10 as claimed: any two tasks whose statuses are among running, suspended
\* and pending appear most-recently-created first.
C10_OneActiveBucket ==
    \A i, j \in 1..Len(tasks) :
        (/\ i < j
         /\ tasks[i].status \in Active \cup {"pending"}
         /\ tasks[j].status \in Active \cup {"pending"})
            => tasks[i].createdAt >= tasks[j].createdAt

\* C10 as amended: running and suspended tasks are one bucket and pending
\* tasks the next one: within each of the two, tasks appear
\* most-recently-created first, and every running or suspended task precedes
\* every pending task.
C10_ActiveThenPending ==
    \A i, j \in 1..Len(tasks) :
        i < j =>
            /\ (tasks[i].status \in Active /\ tasks[j].status \in Active)
                   => tasks[i].createdAt >= tasks[j].createdAt
            /\ (tasks[i].status = "pending" /\ tasks[j].status = "pending")
                   => tasks[i].createdAt >= tasks[j].createdAt
            /\ ~(tasks[i].status = "pending" /\ tasks[j].status \in Active)

\* the scenario: t1 and t2, both running, the newer t1 first
C10_Witness ==
    /\ Len(tasks) = 2
    /\ tasks[1].id = "t1" /\ tasks[1].status = "running" /\ tasks[1].createdAt = 2
    /\ tasks[2].id = "t2" /\ tasks[2].status = "running" /\ tasks[2].createdAt = 1

\* the buckets as C11 names them: running, suspended and pending tasks, then
\* starting tasks, then completed, cancelled and failed tasks
ClaimedBucket(rec) ==
    IF rec.status \in Active \cup {"pending"} THEN 1
    ELSE IF rec.status = "starting" THEN 2
    ELSE 3

\* C11: in every state seen after a merge or a delete, every running,
\* suspended or pending task precedes every starting task, which precedes
\* every completed, cancelled or failed task, and the starting tasks and the
\* terminal tasks are each in updatedAt descending order; the order is part of
\* the merge step itself, so the result of merging any batch is sorted too.
C11_SortedByBucket ==
    LET Sorted(s) ==
            \A i, j \in 1..Len(s) :
                i < j =>
                    /\ ClaimedBucket(s[i]) <= ClaimedBucket(s[j])
                    /\ (ClaimedBucket(s[i]) = ClaimedBucket(s[j]) /\ ClaimedBucket(s[i]) > 1)
                           => s[i].updatedAt >= s[j].updatedAt
    IN  /\ Sorted(tasks)
        /\ \A r \in KeyRecords : Sorted(updateTasks(tasks, <<r>>))
        /\ \A id \in DeleteIds : Sorted(deleteTask(tasks, id))

\* a starting task ahead of a completed task that was updated later: the
\* bucket decides before the timestamp does
C11_Witness ==
    /\ Len(tasks) = 2
    /\ tasks[1].status = "starting" /\ tasks[2].status = "completed"
    /\ tasks[1].updatedAt < tasks[2].updatedAt

RequestsOf(rs, id) == {r \in rs : r.id = id}

\* C12: an item created in status rejected is never dispatched: it is in
\* the collection as rejected right after the step that creates it, after no
\* step is there an upload request or a cancellation handle for a rejected
\* item, and as long as it is in the collection it stays as it is.
C12_RejectedNeverDispatched ==
    [][/\ \A j \in 1..Len(files') :
            (/\ files'[j].id \notin ItemIds(files)
             /\ newItem(files'[j].id, files'[j].size).status = "rejected")
                => files'[j].status = "rejected"
       /\ \A j \in 1..Len(files') :
            files'[j].status = "rejected" =>
                /\ RequestsOf(requests', files'[j].id) = {}
                /\ files'[j].id \notin abortControllers'
       /\ \A i \in 1..Len(files) : \A j \in 1..Len(files') :
            (files[i].status = "rejected" /\ files'[j].id = files[i].id)
                => files'[j] = files[i]
      ]_vars

\* one selection gave a rejected item and an item that was dispatched: the
\* second is uploading with its request, the first has none
C12_Witness ==
    /\ Len(files) = 2
    /\ files[1].status = "rejected" /\ files[2].status = "uploading"
    /\ RequestsOf(requests, files[1].id) = {}
    /\ RequestsOf(requests, files[2].id) # {}

\* C13: an item is created rejected, with a non-empty errorMessage, exactly
\* when the maximum upload size is known (> 0) and the file's size is strictly
\* greater; otherwise it is created waiting (and is uploading, with its
\* request, once the listener has dispatched it in the same step) with an
\* empty errorMessage and progress 0.
C13_RejectedIffOverLimit ==
    [][\A j \in 1..Len(files') :
          files'[j].id \notin ItemIds(files) =>
              LET item == files'[j]
                  created == newItem(item.id, item.size)
                  over == maxUploadSize > 0 /\ item.size > maxUploadSize
              IN  /\ over => (item.status = "rejected" /\ item.errorMessage # "")
                  /\ ~over =>
                        /\ created.status = "waiting"
                        /\ item.errorMessage = "" /\ item.progress = 0
                        /\ \/ item.status = "waiting"
                           \/ /\ item.status = "uploading"
                              /\ RequestsOf(requests', item.id) # {}
      ]_vars

\* with the maximum known, a file above it is rejected with a message and a
\* file of exactly the maximum is waiting
C13_Witness ==
    /\ maxUploadSize = MaxUpload
    /\ Len(files) = 2
    /\ files[1].size = MaxUpload + 1 /\ files[1].status = "rejected"
    /\ files[1].errorMessage # ""
    /\ files[2].size = MaxUpload /\ files[2].status = "waiting"
    /\ files[2].errorMessage = ""

\* the changes the callbacks of a request make to its item
CallbackPatches ==
    {[progress |-> percent] : percent \in Percents}
        \cup {[status |-> "success", progress |-> 100]}
        \cup {[status |-> "error", errorMessage |-> errorMessageOf(error)] :
                 error \in UploadErrors}

\* C14: cancel(id) on an item with an upload in flight aborts the request and
\* removes the item; the callbacks of an aborted request leave the collection
\* as it is; and an item gets status error only from a request that was not
\* aborted.
C14_CancelIsFinal ==
    [][/\ \A i \in 1..Len(files) :
            files[i].status = "uploading" =>
                LET u == cancelFile(Uploader, files[i].id) IN
                /\ files[i].id \notin ItemIds(u.files)
                /\ files[i].id \notin u.abortControllers
                /\ \A r \in RequestsOf(u.requests, files[i].id) : r.aborted
                /\ \A k \in 1..Len(u.files) : \E m \in 1..Len(files) : u.files[k] = files[m]
       /\ \A r \in requests :
            r.aborted =>
                /\ r.id \notin ItemIds(files)
                /\ \A patch \in CallbackPatches : mapItem(files, r.id, patch) = files
                /\ r.id \notin ItemIds(files')
       /\ \A j \in 1..Len(files') :
            files'[j].status = "error" =>
                \/ \E i \in 1..Len(files) : files[i] = files'[j]
                \/ [id |-> files'[j].id, aborted |-> FALSE] \in requests
      ]_vars

\* an upload was cancelled and its aborted request has not settled yet, while
\* another item is still uploading
C14_Witness ==
    /\ \E r \in requests : r.aborted /\ r.id \notin ItemIds(files)
    /\ Len(files) = 1 /\ files[1].status = "uploading"
    /\ panelShow

\* C15: every item in status uploading has exactly one outstanding request,
\* not aborted, and its cancellation handle is registered, so that cancel(id)
\* finds the handle and aborts that request.
C15_OneRequestWithHandle ==
    \A i \in 1..Len(files) :
        files[i].status = "uploading" =>
            /\ RequestsOf(requests, files[i].id)
                   = {[id |-> files[i].id, aborted |-> FALSE]}
            /\ files[i].id \in abortControllers
            /\ RequestsOf(cancelFile(Uploader, files[i].id).requests, files[i].id)
                   = {[id |-> files[i].id, aborted |-> TRUE]}

\* two items uploading at once, each with its own request and handle
C15_Witness ==
    /\ Len(files) = 2
    /\ files[1].status = "uploading" /\ files[2].status = "uploading"
    /\ Cardinality(requests) = 2
    /\ abortControllers = ItemIds(files)

\* C16: a cancellation handle, and an upload that is running (not aborted),
\* exist only for items of the collection.
C16_HandlesOnlyForItems ==
    /\ abortControllers \subseteq ItemIds(files)
    /\ \A r \in requests : ~r.aborted => r.id \in ItemIds(files)

\* the prompts after merging batch b into the store
PromptsAfter(b) ==
    render(conflictDialogVisible, rememberChoice, tasks, updateTasks(tasks, b),
           Delivered(b)).visible

\* the last record of batch b for id that carries a conflictInfo asks for a
\* decision
DeliversNeedConfirm(b, id) ==
    \E k \in 1..Len(b) :
        /\ b[k].id = id /\ needConfirm(b[k])
        /\ \A m \in (k + 1)..Len(b) : b[m].id = id => ~Has(b[m], "conflictInfo")

\* C17: a merge that delivers conflictInfo.needConfirm = true for a task
\* opens that task's prompt; there is one prompt state per stored task id;
\* and a task's prompt changes only by its own events: a merge leaves the
\* prompt of every task it delivers no conflictInfo for as it was, and a step
\* of the user or of one pushed record changes at most one prompt.
C17_OnePromptPerTask ==
    /\ [](/\ DOMAIN conflictDialogVisible = Mounted(tasks)
          /\ Cardinality(DOMAIN conflictDialogVisible) = Len(tasks)
          /\ \A b \in ConflictBatches :
               LET after == PromptsAfter(b) IN
               /\ \A id \in DOMAIN after : DeliversNeedConfirm(b, id) => after[id]
               /\ \A id \in DOMAIN after \cap Mounted(tasks) :
                    id \notin Delivered(b) => after[id] = conflictDialogVisible[id])
    /\ [][~(refreshing /\ ~refreshing') =>
            Cardinality({id \in Mounted(tasks) \cap Mounted(tasks') :
                           conflictDialogVisible'[id] # conflictDialogVisible[id]}) <= 1
         ]_vars

\* two tasks blocked at once, the prompt of t1 dismissed, that of t2 open
C17_Witness ==
    /\ Mounted(tasks) = {"t1", "t2"}
    /\ needConfirm(taskOf(tasks, "t1")) /\ needConfirm(taskOf(tasks, "t2"))
    /\ ~conflictDialogVisible["t1"]
    /\ conflictDialogVisible["t2"]

C19_DismissedOnSubmission ==
    [][/\ \A d \in decisions' \ decisions : ~conflictDialogVisible'[d.taskId]
       /\ \A d \in decisions \ decisions' :
            (d.taskId \in Mounted(tasks') /\ conflictDialogVisible'[d.taskId])
                => conflictDialogVisible[d.taskId]
      ]_vars

\* C20: a merge that takes a task with an open prompt to completed, cancelled
\* or failed closes the prompt, and no decision is submitted for a task whose
\* stored status is terminal.
C20_TerminalRetractsPrompt ==
    [][/\ \A id \in Mounted(tasks) \cap Mounted(tasks') :
            (/\ conflictDialogVisible[id]
             /\ taskOf(tasks, id).status \notin Terminal
             /\ taskOf(tasks', id).status \in Terminal)
                => ~conflictDialogVisible'[id]
       /\ \A d \in decisions' \ decisions :
            taskOf(tasks, d.taskId).status \notin Terminal
      ]_vars

\* C21: the stored collection changes only in merge and delete steps. A
\* button of a card writes nothing into the store; the answer to a suspend,
\* resume, cancel or conflict request, success or failure, leaves the
\* collection as it is (the answer to a delete request calls the store's
\* delete); and a merge changes a task's status only to a status that one of
\* its records carries for that task.
C21_StoreWrittenByMergeOnly ==
    /\ [](/\ \A id \in Mounted(tasks), op \in TaskOps :
               request(tasks, id, op) = tasks
          /\ \A b \in CommandBatches :
               \A id \in Mounted(tasks) :
                   LET after == taskOf(updateTasks(tasks, b), id) IN
                   after.status # taskOf(tasks, id).status
                       => \E k \in 1..Len(b) :
                              b[k].id = id /\ b[k].status = after.status)
    /\ [][(commands' # commands \/ decisions' # decisions)
             => \/ tasks' = tasks
                \/ \E c \in commands \ commands' :
                       c.op = "delete" /\ tasks' = deleteTask(tasks, c.taskId)
         ]_vars

\* a cancel request for t1 and a conflict decision for it are on their way,
\* and the store still holds t1 as running
C21_Witness ==
    /\ [taskId |-> "t1", op |-> "cancel"] \in commands
    /\ \E d \in decisions : d.taskId = "t1"
    /\ "t1" \in Mounted(tasks)
    /\ taskOf(tasks, "t1").status = "running"

\* the places of batch b whose record is for task id and carries field f
Carriers(b, id, f) == {k \in 1..Len(b) : b[k].id = id /\ Has(b[k], f)}

\* the greatest element of a non-empty set of numbers
Last(K) == CHOOSE k \in K : \A m \in K : m <= k

\* C22: whatever merges of either channel came before, after a merge every
\* field of a task holds the value of the last record of the batch that is for
\* that task and carries the field, whether its updatedAt is older or newer
\* than the stored one; a field that no record of the batch carries for the
\* task keeps its stored value, and the derived progress is that of the
\* batch's last record for the task. A batch of one record gives the same
\* collection whichever channel delivers it.
C22_LastAppliedWins ==
    \A b \in ChannelBatches :
        LET s == updateTasks(tasks, b) IN
        /\ \A id \in IdsOf(s) :
             \A f \in DOMAIN Stored(s, id) \ {"progress"} :
                 IF Carriers(b, id, f) # {}
                 THEN Stored(s, id)[f] = b[Last(Carriers(b, id, f))][f]
                 ELSE /\ id \in IdsOf(tasks)
                      /\ Has(Stored(tasks, id), f)
                      /\ Stored(s, id)[f] = Stored(tasks, id)[f]
        /\ \A id \in IdsOf(s) :
             IF Carriers(b, id, "id") # {}
             THEN Stored(s, id).progress
                      = calcProgress(b[Last(Carriers(b, id, "id"))])
             ELSE Stored(s, id) = Stored(tasks, id)

\* t1 was reported completed at updatedAt 2 with its counter, and a record
\* applied later, running at the older updatedAt 1 and without the counter,
\* has overwritten status and updatedAt and kept the counter
C22_Witness ==
    /\ "t1" \in IdsOf(tasks)
    /\ Stored(tasks, "t1").status = "running"
    /\ Stored(tasks, "t1").updatedAt = 1
    /\ Has(Stored(tasks, "t1"), "copiedFiles")
    /\ Stored(tasks, "t1").copiedFiles = 2
    /\ "t2" \in IdsOf(tasks)
    /\ Stored(tasks, "t2").status = "completed"
    /\ Stored(tasks, "t2").updatedAt = 2

\* C23: an upload request answered with status 401 is left to the login
\* redirect: the catch of uploadFile changes no item, so the item of the
\* request is not set to error and gets no errorMessage.
C23_UnauthenticatedLeavesItem ==
    \A r \in requests : \A error \in UploadErrors :
        (~r.aborted /\ error.status = 401 /\ interceptor(error).redirect)
            => catch(Uploader, r.id, error).files = files

\* the item of id in the sequence s of items
ItemOf(s, id) == s[CHOOSE i \in 1..Len(s) : s[i].id = id]

\* C24: an item is created waiting, uploading (created and dispatched in one
\* step) or rejected; success, error and rejected are final; a waiting item
\* goes on to uploading only with a request issued for it, an uploading item
\* goes on to success or error only as its request settles; and a request is
\* issued only for an item created in the same step, never for a stored one.
C24_ItemLifecycle ==
    [][/\ \A id \in ItemIds(files') \ ItemIds(files) :
            ItemOf(files', id).status \in {"waiting", "uploading", "rejected"}
       /\ \A id \in ItemIds(files) \cap ItemIds(files') :
            LET a == ItemOf(files, id).status
                b == ItemOf(files', id).status
            IN  /\ a \in {"success", "error", "rejected"} => b = a
                /\ a = "waiting" => b \in {"waiting", "uploading"}
                /\ a = "uploading" => b \in {"uploading", "success", "error"}
                /\ (a = "waiting" /\ b = "uploading")
                       => [id |-> id, aborted |-> FALSE] \in requests' \ requests
                /\ (a = "uploading" /\ b # a)
                       => [id |-> id, aborted |-> FALSE] \in requests \ requests'
       /\ \A r \in requests' \ requests :
            ~r.aborted => r.id \notin ItemIds(files)
      ]_vars

\* one upload failed and the other succeeded; both requests have settled
C24_Witness ==
    /\ Len(files) = 2
    /\ files[1].status = "error"
    /\ files[2].status = "success"
    /\ requests = {}

\* C25: the home view keeps the connection it opened when it was mounted:
\* no merge and no delete closes it and opens another.
C25_OneConnection == ws = "mounted"

\* C26: merging a record of a stored task that carries no conflictInfo leaves
\* the stored task without a conflictInfo that asks for a decision.
C26_ConflictInfoWhileBlocked ==
    \A r \in FieldRecords(WithIds) :
        (r.id \in IdsOf(tasks) /\ ~Has(r, "conflictInfo"))
            => ~needConfirm(Stored(updateTasks(tasks, <<r>>), r.id))

\* C27: the push handler is one store operation per envelope: for a task
\* envelope the store it leaves is merge of the one-element batch of its
\* data, for a task_deleted envelope it is delete of its data, and for an
\* envelope of another type it is the store as it was; and a step of the push
\* channel changes the store only to what the handler gives for one envelope.
\* (The query's response is handed to merge whole, in PullResponse.)
C27_AdapterIsMergeAndDelete ==
    /\ [](/\ \A message \in TaskEnvelopes :
               onmessage(tasks, message) = updateTasks(tasks, <<message.data>>)
          /\ \A message \in DeletedEnvelopes :
               onmessage(tasks, message) = deleteTask(tasks, message.data)
          /\ \A message \in OtherEnvelopes :
               onmessage(tasks, message) = tasks)
    /\ [][(tasks' # tasks /\ refreshing' = refreshing)
             => \/ \E message \in TaskEnvelopes : tasks' = onmessage(tasks, message)
                \/ \E message \in DeletedEnvelopes : tasks' = onmessage(tasks, message)
         ]_vars

\* two tasks are stored; a deletion envelope for t1 would remove it, and an
\* envelope of another type is ignored although merging its data would change
\* the store
C27_Witness ==
    /\ Len(tasks) = 2
    /\ Len(onmessage(tasks, [type |-> "task_deleted", data |-> "t1"])) = 1
    /\ \E message \in OtherEnvelopes :
          /\ onmessage(tasks, message) = tasks
          /\ updateTasks(tasks, <<message.data>>) # tasks

\* C28: an item is dispatched in the step that enqueues it, so no item is
\* ever left in status waiting.
C28_WaitingDispatchedAtOnce ==
    \A i \in 1..Len(files) : files[i].status # "waiting"

\* the message the claim gives a failure: the size-limit message for status
\* 413, else the server's message, else the connectivity message for a
\* network failure, else the generic one
ClaimedMessage(error) ==
    CASE error.status = 413 /\ error.message # "" -> error.message
      [] error.status = 413 /\ error.message = "" -> "payload too large"
      [] error.status # 413 /\ error.message # "" -> error.message
      [] error.status # 413 /\ error.message = "" /\ error.code = "ERR_NETWORK"
            -> "network failure"
      [] OTHER -> "upload failed"

\* C29: whatever the failure of a running request, its item, if it is still
\* in the collection, is set to error with the message the classification
\* gives, the other items and the other requests are as they were, and a step
\* in which an item becomes error changes no other item.
C29_FailureMarksOneItem ==
    /\ [](\A r \in requests : \A error \in UploadErrors :
             ~r.aborted =>
                 LET u == catch(Uploader, r.id, error) IN
                 /\ Len(u.files) = Len(files)
                 /\ \A i \in 1..Len(files) :
                      IF files[i].id = r.id
                      THEN /\ u.files[i].status = "error"
                           /\ u.files[i].errorMessage = ClaimedMessage(error)
                           /\ u.files[i].progress = files[i].progress
                      ELSE u.files[i] = files[i]
                 /\ u.requests = requests \ {r})
    /\ [][\A i \in 1..Len(files) :
            (/\ Len(files') = Len(files)
             /\ files[i].status # "error"
             /\ files'[i].status = "error")
                => \A k \in 1..Len(files) : k # i => files'[k] = files[k]
         ]_vars

\* the first upload failed with status 413 and no message of the server, the
\* second is still uploading at 50 percent with its request
C29_Witness ==
    /\ Len(files) = 2
    /\ files[1].status = "error"
    /\ files[1].errorMessage = "payload too large"
    /\ files[2].status = "uploading"
    /\ files[2].progress = 50
    /\ requests = {[id |-> files[2].id, aborted |-> FALSE]}

\* C30: the step in which a running request succeeds sets its item, if it is
\* still in the collection, to success with progress 100 and emits fileSuccess
\* for it once; fileSuccess is emitted in no other step, so never for a
\* request that failed or was aborted and never for a rejected item; and no
\* item has more than one emission.
C30_SuccessSignalledOnce ==
    /\ [](/\ \A id \in DOMAIN fileSuccess : fileSuccess[id] = 1
          /\ \A i \in 1..Len(files) :
               /\ files[i].status = "success"
                      => files[i].progress = 100 /\ Has(fileSuccess, files[i].id)
               /\ files[i].status \in {"waiting", "uploading", "error", "rejected"}
                      => ~Has(fileSuccess, files[i].id)
          /\ \A r \in requests : ~Has(fileSuccess, r.id))
    /\ [][fileSuccess' # fileSuccess
             => \E r \in requests \ requests' :
                    /\ ~r.aborted
                    /\ fileSuccess' = Spread(fileSuccess, Only(r.id, 1))
                    /\ \A i \in 1..Len(files) :
                         files[i].id = r.id
                             => /\ files[i].status = "uploading"
                                /\ files'[i].status = "success"
         ]_vars

\* the first upload succeeded and was signalled; the second failed, and the
\* signal was not emitted for it
C30_Witness ==
    /\ Len(files) = 2
    /\ files[1].status = "success" /\ files[1].progress = 100
    /\ files[2].status = "error"
    /\ DOMAIN fileSuccess = {files[1].id}
    /\ requests = {}

\* C31: a delete the user asks for takes the record out of the store only in
\* the step in which the server's acknowledgement arrives: the click leaves
\* the store as it is, and when the request fails the store is left as it is
\* and an error is shown.
C31_DeleteAfterAcknowledgement ==
    /\ [](\A c \in commands :
              c.op = "delete"
                  => /\ request(tasks, c.taskId, c.op) = tasks
                     /\ rejected(tasks, c).tasks = tasks
                     /\ rejected(tasks, c).alert = "error")
    /\ [][/\ \A c \in commands' \ commands :
               c.op = "delete"
                   => /\ tasks' = tasks
                      /\ c.taskId \in IdsOf(tasks')
          /\ \A c \in commands \ commands' :
               c.op = "delete"
                   => \/ tasks' = tasks
                      \/ /\ tasks' = deleteTask(tasks, c.taskId)
                         /\ c.taskId \notin IdsOf(tasks')
         ]_vars

\* the delete request for the cancelled task t1 is on its way and the store
\* still holds t1
C31_Witness ==
    /\ [taskId |-> "t1", op |-> "delete"] \in commands
    /\ "t1" \in Mounted(tasks)
    /\ taskOf(tasks, "t1").status = "cancelled"

\* C32: every decision sent carries the id of the task whose prompt the user
\* answered, one of the four policies and the remember flag that prompt
\* showed at the click; a decision is never sent with another task's id.
C32_DecisionCarriesItsPrompt ==
    /\ [](\A id \in DOMAIN conflictDialogVisible, policy \in Policies :
              conflictDialogVisible[id]
                  => body(taskOf(tasks, id), policy, rememberChoice[id])
                         = [taskId |-> id, policy |-> policy,
                            remember |-> rememberChoice[id]])
    /\ [][\A d \in decisions' \ decisions :
              /\ d.taskId \in DOMAIN conflictDialogVisible
              /\ conflictDialogVisible[d.taskId]
              /\ d.policy \in Policies
              /\ d.remember = rememberChoice[d.taskId]
         ]_vars

\* a decision with the remember flag is on its way for t2, whose prompt is
\* ticked, while the prompt of t1, the head of the list, is open and unticked
C32_Witness ==
    /\ \E d \in decisions : d.taskId = "t2" /\ d.remember
    /\ DOMAIN conflictDialogVisible = {"t1", "t2"}
    /\ tasks[1].id = "t1"
    /\ conflictDialogVisible["t1"] /\ ~rememberChoice["t1"]
    /\ conflictDialogVisible["t2"] /\ rememberChoice["t2"]

\* round(loaded / total * 100): the whole number nearest to the quotient, the
\* upper one of two that are equally near
ClaimedPercent(loaded, total) ==
    CHOOSE p \in 0..100 :
        /\ 2 * p * total - total <= 200 * loaded
        /\ 200 * loaded < 2 * p * total + total

\* C33: a progress event (loaded, total) with total > 0 sets the item's
\* progress to round(loaded/total*100). When at least half a second has
\* passed since the last sample, the item's speed becomes
\* (loaded - lastLoaded) / elapsed and the sample point moves to (loaded,
\* now); otherwise the item keeps its speed and the sample point stays.
C33_SpeedSampledEveryHalfSecond ==
    \A r \in requests, event \in SpeedEvents :
        \A i \in 1..Len(files) :
            (/\ files[i].id = r.id
             /\ event.total > 0
             /\ event.loaded >= samples[r.id].lastLoaded)
                => LET sample == samples[r.id]
                       after == onUploadProgress(files, sample, r.id, event)
                       item == after.files[i]
                   IN  /\ item.progress = ClaimedPercent(event.loaded, event.total)
                       /\ IF sample.elapsed >= 2
                          THEN /\ item.speed * sample.elapsed
                                      = (event.loaded - sample.lastLoaded) * 12
                               /\ after.sample = [lastLoaded |-> event.loaded,
                                                  elapsed |-> 0]
                          ELSE /\ item.speed = files[i].speed
                               /\ after.sample = sample

\* C34: when a query is in flight and a task is deleted (by a deletion notice
\* of the push channel, or by the store's delete after an acknowledged
\* request), the response of that query, applied after the deletion, does not
\* put a record of that task back into the store.
C34_DeletedStaysDeleted ==
    queries > 0
        => \A id \in IdsOf(tasks), data \in ChannelBatches :
               LET deleted == onmessage(tasks, [type |-> "task_deleted", data |-> id])
               IN  /\ deleted = deleteTask(tasks, id)
                   /\ id \notin IdsOf(updateTasks(deleted, data))

\* C35: a merge removes no record: every task stored before it is stored
\* after it, so a task that a pull response does not list stays, and a task
\* leaves the store only in a step that applies delete for its id.
C35_MergeKeepsEveryTask ==
    /\ [](/\ \A data \in ChannelBatches :
               IdsOf(tasks) \subseteq IdsOf(updateTasks(tasks, data))
          /\ \A message \in TaskEnvelopes :
               IdsOf(tasks) \subseteq IdsOf(onmessage(tasks, message)))
    /\ [][\A id \in IdsOf(tasks) \ IdsOf(tasks') : tasks' = deleteTask(tasks, id)
         ]_vars

\* both tasks are stored and a query is in flight whose response may list t1
\* alone and change it: t2 is stored after that merge
C35_Witness ==
    /\ refreshing
    /\ IdsOf(tasks) = {"t1", "t2"}
    /\ \E data \in ChannelBatches :
          /\ Len(data) = 1 /\ data[1].id = "t1"
          /\ updateTasks(tasks, data) # tasks
          /\ "t2" \in IdsOf(updateTasks(tasks, data))

\* C36: while a decision submitted from a task's prompt awaits its answer, no
\* second decision is submitted for that task: at most one decision request
\* per task is in flight.
C36_OneDecisionPerPrompt ==
    \A d \in decisions, e \in decisions : d.taskId = e.taskId => d = e

\* C37: at most one pull query is in flight; a query is sent only when none
\* is in flight and `refreshing` is not set; and `refreshing` is not set
\* after the step in which a query returns or fails.
C37_OnePullAtATime ==
    /\ [](queries <= 1)
    /\ [][/\ queries' > queries => (queries = 0 /\ ~refreshing)
          /\ queries' < queries => ~refreshing'
         ]_vars

\* the statuses for which a command may be asked
Allows(op) ==
    CASE op = "suspend" -> {"running"}
      [] op = "resume" -> {"suspended"}
      [] op = "cancel" -> {"pending", "starting", "running", "suspended"}
      [] op = "delete" -> {"completed", "cancelled", "failed"}

\* C38: a command is requested only for a stored task whose status, at the
\* step of the request, allows it: suspend for running, resume for suspended,
\* cancel for pending, starting, running or suspended, delete for completed,
\* cancelled or failed.
C38_CommandsFitStatus ==
    /\ [](\A id \in Mounted(tasks), op \in TaskOps :
              op \in buttons(taskOf(tasks, id).status)
                  <=> taskOf(tasks, id).status \in Allows(op))
    /\ [][\A c \in commands' \ commands :
              /\ c.taskId \in Mounted(tasks)
              /\ taskOf(tasks, c.taskId).status \in Allows(c.op)
         ]_vars

\* the cancel request for the pending task t2 is on its way while t1 is
\* stored as cancelled
C38_Witness ==
    /\ [taskId |-> "t2", op |-> "cancel"] \in commands
    /\ Mounted(tasks) = {"t1", "t2"}
    /\ taskOf(tasks, "t2").status = "pending"
    /\ taskOf(tasks, "t1").status = "cancelled"

====
